---- MODULE Spec2Model ----
(***************************************************************************)
(* Hero League Hub backend: the hero catalog routes (backend/app/routes/   *)
(* heroes.py) over the heroes table (backend/app/models/models.py), the    *)
(* seed script (backend/scripts/seed_db.py), and the entrant and match     *)
(* routes (backend/app/routes/entrants.py, matches.py) behind the JWT      *)
(* blocklist (backend/app/__init__.py, blocklist.py).                      *)
(*                                                                         *)
(* JSON values are modelled as tagged values: NULL is Python None / JSON   *)
(* null, MISSING marks a key that is absent from a JSON object.  Strings   *)
(* that the code parses (the upstream identifier) are sequences of         *)
(* one-character strings.                                                  *)
(*                                                                         *)
(* Spec is the server answering one request at a time, SpecNorm is         *)
(* normalize_hero over the payload shapes of the upstream, SpecConc is     *)
(* two workers running get_hero and search_or_browse_heroes statement by   *)
(* statement against the shared table.  SpecPage is search and browse     *)
(* over a fixed upstream result list for a range of page and per_page      *)
(* values, SpecLeague is the entrant, match and logout requests one at a   *)
(* time, SpecReg is two workers running register_user_for_event check      *)
(* first, commit later.                                                    *)
(***************************************************************************)
EXTENDS Integers, Sequences, FiniteSets, TLC

NULL == "NULL"
MISSING == "MISSING"

(* ----------------------------- bounds --------------------------------- *)
\* hero ids of the request machine are 0..MaxId
MaxId == 1
\* longest upstream search result list
MaxBatch == 2
\* longest raw identifier string given to normalize_hero in SpecNorm
MaxIdLen == 2

(* ------------------------- Python primitives -------------------------- *)
Digits == {"0", "1", "2", "3", "4", "5", "6", "7", "8", "9"}

DigitVal(c) ==
    CASE c = "0" -> 0 [] c = "1" -> 1 [] c = "2" -> 2 [] c = "3" -> 3
      [] c = "4" -> 4 [] c = "5" -> 5 [] c = "6" -> 6 [] c = "7" -> 7
      [] c = "8" -> 8 [] c = "9" -> 9

RECURSIVE LStrip(_)
LStrip(s) == IF s # <<>> /\ Head(s) = " " THEN LStrip(Tail(s)) ELSE s

RECURSIVE RStrip(_)
RStrip(s) ==
    IF s # <<>> /\ s[Len(s)] = " " THEN RStrip(SubSeq(s, 1, Len(s) - 1)) ELSE s

\* str.strip()
strip(s) == RStrip(LStrip(s))

\* the text after the sign: digits, single underscores allowed between digits
IntBodyOk(b) ==
    /\ b # <<>>
    /\ \A i \in 1..Len(b) : b[i] \in Digits \/ b[i] = "_"
    /\ b[1] \in Digits
    /\ b[Len(b)] \in Digits
    /\ \A i \in 1..(Len(b) - 1) : ~(b[i] = "_" /\ b[i + 1] = "_")

RECURSIVE IntBodyVal(_, _)
IntBodyVal(b, acc) ==
    IF b = <<>> THEN acc
    ELSE IF Head(b) = "_" THEN IntBodyVal(Tail(b), acc)
    ELSE IntBodyVal(Tail(b), 10 * acc + DigitVal(Head(b)))

IntSigned(s) == s # <<>> /\ Head(s) \in {"+", "-"}
IntBody(s) == IF IntSigned(s) THEN Tail(s) ELSE s

\* int(s) raises ValueError
int_raises(s) == ~IntBodyOk(IntBody(strip(s)))

\* int(s) for a string it accepts
int(s) ==
    LET t == strip(s)
        v == IntBodyVal(IntBody(t), 0)
    IN  IF IntSigned(t) /\ Head(t) = "-" THEN 0 - v ELSE v

(* --------------------------- models.py -------------------------------- *)
HERO_ALIGNMENTS == {"hero", "villain", "antihero", "unknown"}

API_ALIGNMENT_DOMAIN == {"good", "bad", "neutral", NULL, ""}

API_ALIGNMENT_MAP(raw) ==
    CASE raw = "good" -> "hero"
      [] raw = "bad" -> "villain"
      [] raw = "neutral" -> "antihero"
      [] raw = NULL -> "unknown"
      [] raw = "" -> "unknown"

\* mutant of AlignmentLookup: a value outside the table is passed through
AlignmentLookupRaw(raw) ==
    IF raw \in API_ALIGNMENT_DOMAIN THEN API_ALIGNMENT_MAP(raw) ELSE raw

\* dict.get(key, default) on API_ALIGNMENT_MAP
AlignmentLookup(raw) ==
    IF raw \in API_ALIGNMENT_DOMAIN THEN API_ALIGNMENT_MAP(raw) ELSE "unknown"

\* Hero(**h): the columns of a heroes row
Hero(h) ==
    [id |-> h.id, name |-> h.name, full_name |-> h.full_name,
     alias |-> h.alias, alignment |-> h.alignment, image |-> h.image,
     powerstats |-> h.powerstats, biography |-> h.biography,
     appearance |-> h.appearance, work |-> h.work,
     connections |-> h.connections]

\* Hero.to_dict
to_dict(self) ==
    [id |-> self.id, name |-> self.name, full_name |-> self.full_name,
     alias |-> self.alias, alignment |-> self.alignment, image |-> self.image,
     powerstats |-> self.powerstats, biography |-> self.biography,
     appearance |-> self.appearance, work |-> self.work,
     connections |-> self.connections]

\* heroes.name is nullable=False: the row the table refuses
RowRejected(row) == row.name = NULL

(* ------------------------ raw upstream payloads ----------------------- *)
\* data.get(key) for a scalar or opaque value
Get(v) == IF v = MISSING THEN NULL ELSE v

NoBio == [kind |-> "missing", full_name |-> MISSING, alignment |-> MISSING]
NullBio == [kind |-> "null", full_name |-> MISSING, alignment |-> MISSING]
Bio(fn, al) == [kind |-> "obj", full_name |-> fn, alignment |-> al]

NoImage == [kind |-> "missing", url |-> MISSING]
NullImage == [kind |-> "null", url |-> MISSING]
Image(url) == [kind |-> "obj", url |-> url]

NoId == [kind |-> "missing", chars |-> <<>>]
NullId == [kind |-> "null", chars |-> <<>>]
StrId(s) == [kind |-> "str", chars |-> s]

\* the JSON object {} (also the upstream's {"response": "error"} body)
EmptyPayload ==
    [id |-> NoId, name |-> MISSING, biography |-> NoBio, image |-> NoImage,
     powerstats |-> MISSING, appearance |-> MISSING, work |-> MISSING,
     connections |-> MISSING]

(* --------------------------- normalize_hero --------------------------- *)
\* data.get("id") or 0 keeps the raw identifier only when it is truthy
IdTruthy(data) == data.id.kind = "str" /\ data.id.chars # <<>>

\* data.get("biography", {}).get(...) raises when biography is null
normalize_raises(data) ==
    \/ data.biography.kind = "null"
    \/ IdTruthy(data) /\ int_raises(data.id.chars)

normalize_hero(data) ==
    LET raw_alignment == Get(data.biography.alignment)
        alignment == AlignmentLookup(raw_alignment)
        hero_id == IF IdTruthy(data) THEN int(data.id.chars) ELSE 0
    IN  [id |-> hero_id,
         name |-> Get(data.name),
         full_name |-> Get(data.biography.full_name),
         alias |-> NULL,
         alignment |-> alignment,
         image |-> IF data.image.kind = "obj" THEN Get(data.image.url) ELSE NULL,
         powerstats |-> Get(data.powerstats),
         biography |-> IF data.biography.kind = "missing" THEN NullBio
                       ELSE data.biography,
         appearance |-> Get(data.appearance),
         work |-> Get(data.work),
         connections |-> Get(data.connections)]

(* ------------------------------ state --------------------------------- *)
VARIABLES
    heroes,         \* the heroes table: hero id -> committed row
    request,        \* the request being answered
    reply,          \* what the upstream directory answered to that request
    response,       \* the response of the endpoint
    upstreamCalls,  \* the upstream requests the handler issued, in order
    before,         \* the table as it was when the request came in
    rawHero,        \* SpecNorm: the payload handed to normalize_hero
    outcome,        \* SpecNorm: what normalize_hero made of it
    workers,        \* SpecConc: the requests in progress, one per worker
    apiResults,     \* SpecPage: the result list the upstream search answers
    entrants,       \* the entrants table: entrant id -> committed row
    matches,        \* the matches table: match id -> committed row
    serial,         \* the next values of the tables' id sequences
    jwt_blocklist,  \* the jti of the revoked tokens
    call,           \* SpecLeague: the last request and its response
    regs            \* SpecReg: the registrations in progress, one per worker

vars ==
    <<heroes, request, reply, response, upstreamCalls, before, rawHero, outcome,
      workers, apiResults, entrants, matches, serial, jwt_blocklist, call,
      regs>>

\* the variables of the normalizer's own specification
normVars == <<rawHero, outcome>>

\* the variables of the one-request-at-a-time server
seqVars == <<request, reply, response, upstreamCalls, before>>

\* the variables of the tournament side: entrants, matches and tokens
leagueVars == <<entrants, matches, serial, jwt_blocklist, call, regs>>

EmptyFn == [k \in {} |-> NULL]

NoCall == [op |-> "none", status |-> 0, token |-> 0]

\* the tournament side before any request: empty tables, nothing revoked
NoLeague ==
    /\ entrants = EmptyFn
    /\ matches = EmptyFn
    /\ serial = [entrant |-> 1, match |-> 1]
    /\ jwt_blocklist = {}
    /\ call = NoCall
    /\ regs = EmptyFn

(* ------------------------- SQLAlchemy session ------------------------- *)
\* db.session inside one request: db is the table as the open transaction
\* sees it, new the pending (added, unflushed) rows, dirty the modified
\* persistent rows, identity the ids held in the identity map
NewSession(committed) ==
    [db |-> committed, new |-> <<>>, dirty |-> EmptyFn, identity |-> {}]

NewIds(s) == {s.new[i].id : i \in 1..Len(s.new)}

\* the flush raises IntegrityError: a NULL name or a duplicate primary key
FlushFails(s) ==
    \/ \E i \in 1..Len(s.new) :
          \/ RowRejected(s.new[i])
          \/ s.new[i].id \in DOMAIN s.db
          \/ \E j \in 1..Len(s.new) : j # i /\ s.new[j].id = s.new[i].id
    \/ \E k \in DOMAIN s.dirty : RowRejected(s.dirty[k])

\* the session after a flush that succeeded
Flushed(s) ==
    [db |-> [k \in DOMAIN s.db \cup NewIds(s) |->
                IF k \in NewIds(s)
                THEN s.new[CHOOSE i \in 1..Len(s.new) : s.new[i].id = k]
                ELSE IF k \in DOMAIN s.dirty THEN s.dirty[k] ELSE s.db[k]],
     new |-> <<>>,
     dirty |-> EmptyFn,
     identity |-> s.identity \cup NewIds(s)]

\* mutant of Found: the lookup never finds the row
FoundNever(table, id) == FALSE

\* db.session.get(Hero, id) returns a row
Found(table, id) == id \in DOMAIN table

\* db.session.add(row)
SessionAdd(s, row) == [s EXCEPT !.new = Append(@, row)]

\* for key, val in h.items(): setattr(hero, key, val)
SessionSetAll(s, row) ==
    [s EXCEPT !.dirty = [k \in DOMAIN @ \cup {row.id} |->
                            IF k = row.id THEN row ELSE @[k]],
              !.identity = @ \cup {row.id}]

(* ----------------------------- responses ------------------------------ *)
NoResponse ==
    [kind |-> "none", status |-> 0, error |-> "", results |-> <<>>,
     page |-> 0, per_page |-> 0, total |-> 0, total_pages |-> 0]

\* jsonify(error=msg), status
ErrorResponse(status, msg) ==
    [kind |-> "error", status |-> status, error |-> msg, results |-> <<>>,
     page |-> 0, per_page |-> 0, total |-> 0, total_pages |-> 0]

\* f"/api/heroes/{id}/image"
proxy_image(id) == <<"/api/heroes/", id, "/image">>

\* h["proxy_image"] = ...
WithProxy(h) ==
    [id |-> h.id, name |-> h.name, full_name |-> h.full_name,
     alias |-> h.alias, alignment |-> h.alignment, image |-> h.image,
     powerstats |-> h.powerstats, biography |-> h.biography,
     appearance |-> h.appearance, work |-> h.work,
     connections |-> h.connections, proxy_image |-> proxy_image(h.id)]

\* jsonify(payload), 200 of get_hero
HeroResponse(payload) ==
    [kind |-> "hero", status |-> 200, error |-> "", results |-> <<payload>>,
     page |-> 0, per_page |-> 0, total |-> 0, total_pages |-> 0]

\* Response(proxied.content, status=200, ...) of get_hero_image
ImageResponse ==
    [kind |-> "image", status |-> 200, error |-> "", results |-> <<>>,
     page |-> 0, per_page |-> 0, total |-> 0, total_pages |-> 0]

(* ------------------------------ upstream ------------------------------ *)
NoResults == [kind |-> "missing", items |-> <<>>]
NullResults == [kind |-> "null", items |-> <<>>]
ListResults(items) == [kind |-> "list", items |-> items]

NoReply ==
    [kind |-> "none", status |-> 0, json |-> FALSE, results |-> NoResults,
     hero |-> EmptyPayload, asset |-> "none"]

\* requests.get raised (timeout, connection error)
TimeoutReply == [NoReply EXCEPT !.kind = "timeout"]

\* an HTTP reply whose body is not JSON
BadBodyReply(status) == [NoReply EXCEPT !.kind = "http", !.status = status]

\* an HTTP reply to search/<query>
SearchReply(status, results) ==
    [NoReply EXCEPT !.kind = "http", !.status = status, !.json = TRUE,
                    !.results = results]

\* an HTTP reply to <hero_id>
IdReply(status, hero) ==
    [NoReply EXCEPT !.kind = "http", !.status = status, !.json = TRUE,
                    !.hero = hero]

\* mutant of RespOk: only server errors count as failures
RespOkBelow500(r) == r.status < 500

\* requests.Response.ok
RespOk(r) == r.status < 400

(* --------------------- search_or_browse_heroes ------------------------ *)
\* request.args.get("search", "").strip(): the query strings of the model
StripStr(s) ==
    CASE s = " " -> ""
      [] s = " batman " -> "batman"
      [] s = " Villain " -> "Villain"
      [] OTHER -> s

\* str.lower() on the alignment values of the model
LowerStr(s) ==
    CASE s = "Villain" -> "villain"
      [] s = "ALL" -> "all"
      [] OTHER -> s

Max(a, b) == IF a >= b THEN a ELSE b
Min(a, b) == IF a <= b THEN a ELSE b

\* page = max(int(request.args.get("page", 1)), 1)
EffPage(page) == Max(page, 1)

\* mutant of EffPerPage: the upper limit of 100 is not applied
EffPerPageUncapped(per_page) == Max(per_page, 1)

\* per_page = max(min(int(request.args.get("per_page", 25)), 100), 1)
EffPerPage(per_page) == Max(Min(per_page, 100), 1)

\* results[start:end] with 0 <= start
Slice(results, start, end) ==
    IF start >= Len(results) THEN <<>>
    ELSE SubSeq(results, start + 1, Min(end, Len(results)))

RECURSIVE SelectAlignment(_, _)
\* [h for h in results if h.get("alignment") == alignment]
SelectAlignment(results, alignment) ==
    IF results = <<>> THEN <<>>
    ELSE IF Head(results).alignment = alignment
         THEN <<Head(results)>> \o SelectAlignment(Tail(results), alignment)
         ELSE SelectAlignment(Tail(results), alignment)

\* mutant of ApplyAlignment: the filter of lines 96-98 is left out
ApplyAlignmentOff(results, alignment) == results

\* if alignment and alignment != "all": filter
ApplyAlignment(results, alignment) ==
    IF alignment # "" /\ alignment # "all"
    THEN SelectAlignment(results, alignment)
    ELSE results

RECURSIVE AddProxies(_)
\* for h in results: h["proxy_image"] = ...
AddProxies(results) ==
    IF results = <<>> THEN <<>>
    ELSE <<WithProxy(Head(results))>> \o AddProxies(Tail(results))

RECURSIVE ToDicts(_)
\* [h.to_dict() for h in heroes]
ToDicts(rows) ==
    IF rows = <<>> THEN <<>> ELSE <<to_dict(Head(rows))>> \o ToDicts(Tail(rows))

RECURSIVE NormalizeAll(_)
\* [normalize_hero(h) for h in api_results]
NormalizeAll(items) ==
    IF items = <<>> THEN <<>>
    ELSE <<normalize_hero(Head(items))>> \o NormalizeAll(Tail(items))

\* mutant of ListResponse: the slice starts one page too far
ListResponseZeroBased(results, alignment, page, per_page) ==
    LET filtered == AddProxies(ApplyAlignment(results, alignment))
        total == Len(filtered)
        start == page * per_page
        end == start + per_page
    IN  [kind |-> "list", status |-> 200, error |-> "",
         results |-> Slice(filtered, start, end),
         page |-> page, per_page |-> per_page, total |-> total,
         total_pages |-> (total + per_page - 1) \div per_page]

\* the filter, the proxy_image step and the pagination of lines 96-121
ListResponse(results, alignment, page, per_page) ==
    LET filtered == AddProxies(ApplyAlignment(results, alignment))
        total == Len(filtered)
        start == (page - 1) * per_page
        end == start + per_page
    IN  [kind |-> "list", status |-> 200, error |-> "",
         results |-> Slice(filtered, start, end),
         page |-> page, per_page |-> per_page, total |-> total,
         total_pages |-> (total + per_page - 1) \div per_page]

\* collation rank of the hero names of the model
NameRank(n) ==
    CASE n = "Batman" -> 1
      [] n = "Superman" -> 2
      [] OTHER -> 0

\* mutant of BrowseOrders: the order_by is dropped
BrowseOrdersUnsorted(table, alignment) ==
    LET ids == {k \in DOMAIN table :
                  (alignment # "" /\ alignment # "all")
                      => table[k].alignment = alignment}
        n == Cardinality(ids)
    IN  {[i \in 1..n |-> table[f[i]]] :
            f \in {g \in [1..n -> ids] :
                     \A i, j \in 1..n : i # j => g[i] # g[j]}}

\* Hero.query[.filter_by(alignment=...)].order_by(Hero.name.asc()).all():
\* every order of the selected rows that is ascending by name
BrowseOrders(table, alignment) ==
    LET ids == {k \in DOMAIN table :
                  (alignment # "" /\ alignment # "all")
                      => table[k].alignment = alignment}
        n == Cardinality(ids)
    IN  {[i \in 1..n |-> table[f[i]]] :
            f \in {g \in [1..n -> ids] :
                     /\ \A i, j \in 1..n : i # j => g[i] # g[j]
                     /\ \A i, j \in 1..n :
                          i < j => NameRank(table[g[i]].name)
                                     <= NameRank(table[g[j]].name)}}

\* mutant of Browse: a request without a search query is refused
BrowseRefused(rows, alignment, page, per_page) ==
    ErrorResponse(400, "Missing search query")

\* the local browse of lines 88-121 over the rows the query returned
Browse(rows, alignment, page, per_page) ==
    ListResponse(ToDicts(rows), alignment, page, per_page)

\* [normalize_hero(h) for h in api_results] raises
AnyNormalizeRaises(items) == \E i \in 1..Len(items) : normalize_raises(items[i])

\* mutant of UpsertStep: a record whose id is already stored is inserted
\* again under the next id instead of replacing the row
UpsertStepDuplicates(s, h, committed) ==
    LET inMap == h.id \in s.identity
        raised == ~inMap /\ FlushFails(s)
        s1 == IF inMap THEN s ELSE Flushed(s)
    IN  IF raised THEN NewSession(committed)
        ELSE IF h.id \notin DOMAIN s1.db THEN SessionAdd(s1, Hero(h))
        ELSE SessionAdd(s1, [Hero(h) EXCEPT !.id = h.id + 1])

\* mutant of UpsertStep: the rollback of the except branch also discards
\* the committed rows
UpsertStepWipes(s, h, committed) ==
    LET inMap == h.id \in s.identity
        raised == ~inMap /\ FlushFails(s)
        s1 == IF inMap THEN s ELSE Flushed(s)
    IN  IF raised THEN NewSession(EmptyFn)
        ELSE IF h.id \notin DOMAIN s1.db THEN SessionAdd(s1, Hero(h))
        ELSE SessionSetAll(s1, Hero(h))

\* one pass of the loop body of lines 73-83 for the normalized record h:
\* db.session.get autoflushes unless the id is in the identity map; an
\* exception rolls the transaction back and skips the record
UpsertStep(s, h, committed) ==
    LET inMap == h.id \in s.identity
        raised == ~inMap /\ FlushFails(s)
        s1 == IF inMap THEN s ELSE Flushed(s)
    IN  IF raised THEN NewSession(committed)
        ELSE IF h.id \notin DOMAIN s1.db THEN SessionAdd(s1, Hero(h))
        ELSE SessionSetAll(s1, Hero(h))

RECURSIVE UpsertLoop(_, _, _)
\* for h in normalized: ...
UpsertLoop(s, normalized, committed) ==
    IF normalized = <<>> THEN s
    ELSE UpsertLoop(UpsertStep(s, Head(normalized), committed),
                    Tail(normalized), committed)

\* the table after lines 70-84 ran over the result list items: the rows of
\* the session when the commit succeeds, the table as it was when
\* normalize_hero or the commit raised
PersistSearch(table, items) ==
    LET sess == UpsertLoop(NewSession(table), NormalizeAll(items), table)
    IN  IF AnyNormalizeRaises(items) \/ FlushFails(sess) THEN table
        ELSE Flushed(sess).db

\* api_results = resp.json().get("results", []) or []
ApiResults(r) == IF r.results.kind = "list" THEN r.results.items ELSE <<>>

SearchRequest(search, alignment, page, per_page) ==
    [op |-> "search_or_browse_heroes", search |-> search,
     alignment |-> alignment, page |-> page, per_page |-> per_page,
     hero_id |-> 0]

\* GET /api/heroes?search=&alignment=&page=&per_page=
search_or_browse_heroes(search, alignmentArg, pageArg, perPageArg, r) ==
    LET query == StripStr(search)
        alignment == LowerStr(StripStr(alignmentArg))
        page == EffPage(pageArg)
        per_page == EffPerPage(perPageArg)
        normalized == NormalizeAll(ApiResults(r))
        sess == UpsertLoop(NewSession(heroes), normalized, heroes)
    IN  /\ request' = SearchRequest(search, alignmentArg, pageArg, perPageArg)
        /\ before' = heroes
        /\ IF query # ""
           THEN /\ r.kind # "none"
                /\ reply' = r
                /\ upstreamCalls' = <<"search">>
                /\ IF r.kind = "timeout" \/ (RespOk(r) /\ ~r.json)
                   THEN /\ response' = ErrorResponse(500, "Failed to fetch heroes")
                        /\ heroes' = heroes
                   ELSE IF ~RespOk(r)
                   THEN /\ response' = ErrorResponse(r.status, "External API error")
                        /\ heroes' = heroes
                   ELSE IF AnyNormalizeRaises(ApiResults(r)) \/ FlushFails(sess)
                   THEN /\ response' = ErrorResponse(500, "Failed to fetch heroes")
                        /\ heroes' = heroes
                   ELSE /\ heroes' = PersistSearch(heroes, ApiResults(r))
                        /\ response' =
                             ListResponse(normalized, alignment, page, per_page)
           ELSE /\ r = NoReply
                /\ reply' = r
                /\ upstreamCalls' = <<>>
                /\ heroes' = heroes
                /\ \E rows \in BrowseOrders(heroes, alignment) :
                      response' = Browse(rows, alignment, page, per_page)

(* ------------------------------ get_hero ------------------------------ *)
IdRequest(op, hero_id) ==
    [op |-> op, search |-> "", alignment |-> "", page |-> 0, per_page |-> 0,
     hero_id |-> hero_id]

\* GET /api/heroes/<hero_id>
get_hero(hero_id, r) ==
    LET data == normalize_hero(r.hero)
        sess == SessionAdd(NewSession(heroes), Hero(data))
    IN  /\ request' = IdRequest("get_hero", hero_id)
        /\ before' = heroes
        /\ IF Found(heroes, hero_id)
           THEN /\ r = NoReply
                /\ reply' = r
                /\ upstreamCalls' = <<>>
                /\ heroes' = heroes
                /\ response' = HeroResponse(WithProxy(to_dict(heroes[hero_id])))
           ELSE /\ r.kind # "none"
                /\ reply' = r
                /\ upstreamCalls' = <<"id">>
                /\ IF r.kind = "timeout" \/ (RespOk(r) /\ ~r.json)
                   THEN /\ response' = ErrorResponse(500, "Failed to fetch hero")
                        /\ heroes' = heroes
                   ELSE IF ~RespOk(r)
                   THEN /\ response' = ErrorResponse(r.status, "External API error")
                        /\ heroes' = heroes
                   ELSE IF normalize_raises(r.hero) \/ FlushFails(sess)
                   THEN /\ response' = ErrorResponse(500, "Failed to fetch hero")
                        /\ heroes' = heroes
                   ELSE /\ heroes' = Flushed(sess).db
                        /\ response' =
                             HeroResponse(WithProxy(to_dict(Flushed(sess).db[data.id])))

(* --------------------------- get_hero_image --------------------------- *)
\* a value Python treats as true: neither None nor ""
Truthy(v) == v # NULL /\ v # ""

\* mutant of PayloadImageUrl: a payload without an image URL is given a
\* placeholder URL
PayloadImageUrlPlaceholder(data) ==
    IF data.image.kind = "obj" /\ Get(data.image.url) # NULL
    THEN data.image.url ELSE "http://placeholder.jpg"

\* (data.get("image", {}) or {}).get("url")
PayloadImageUrl(data) ==
    IF data.image.kind = "obj" THEN Get(data.image.url) ELSE NULL

\* the proxied asset fetch of lines 176-184
AssetResponse(asset) ==
    CASE asset = "ok" -> ImageResponse
      [] asset = "bad" -> ErrorResponse(502, "Failed to fetch external image")
      [] asset = "timeout" -> ErrorResponse(500, "Failed to fetch hero image")

\* GET /api/heroes/<hero_id>/image
get_hero_image(hero_id, r) ==
    LET known == Found(heroes, hero_id)
        stored == IF known /\ Truthy(heroes[hero_id].image)
                  THEN heroes[hero_id].image ELSE NULL
        image_url == PayloadImageUrl(r.hero)
        sess == SessionAdd(NewSession(heroes), Hero(normalize_hero(r.hero)))
    IN  /\ request' = IdRequest("get_hero_image", hero_id)
        /\ before' = heroes
        /\ reply' = r
        /\ IF stored # NULL
           THEN /\ r.kind = "none"
                /\ r.asset # "none"
                /\ upstreamCalls' = <<"asset">>
                /\ heroes' = heroes
                /\ response' = AssetResponse(r.asset)
           ELSE /\ r.kind # "none"
                /\ IF r.kind = "timeout" \/ (RespOk(r) /\ ~r.json)
                   THEN /\ r.asset = "none"
                        /\ upstreamCalls' = <<"id">>
                        /\ response' =
                             ErrorResponse(500, "Failed to fetch hero image")
                        /\ heroes' = heroes
                   ELSE IF ~RespOk(r)
                   THEN /\ r.asset = "none"
                        /\ upstreamCalls' = <<"id">>
                        /\ response' =
                             ErrorResponse(r.status, "External API error")
                        /\ heroes' = heroes
                   ELSE IF ~Truthy(image_url)
                   THEN /\ r.asset = "none"
                        /\ upstreamCalls' = <<"id">>
                        /\ response' = ErrorResponse(404, "No image available")
                        /\ heroes' = heroes
                   ELSE IF known
                   THEN /\ r.asset # "none"
                        /\ upstreamCalls' = <<"id", "asset">>
                        /\ heroes' = [heroes EXCEPT ![hero_id].image = image_url]
                        /\ response' = AssetResponse(r.asset)
                   ELSE IF normalize_raises(r.hero) \/ FlushFails(sess)
                   THEN /\ r.asset = "none"
                        /\ upstreamCalls' = <<"id">>
                        /\ response' =
                             ErrorResponse(500, "Failed to fetch hero image")
                        /\ heroes' = heroes
                   ELSE /\ r.asset # "none"
                        /\ upstreamCalls' = <<"id", "asset">>
                        /\ heroes' = Flushed(sess).db
                        /\ response' = AssetResponse(r.asset)

(* ------------------------------ seed_db ------------------------------- *)
\* the Hero(...) of lines 78-90 for one entry of superheros_all.json
SeedHero(h) ==
    [id |-> h.id,
     name |-> h.name,
     full_name |-> Get(h.biography.full_name),
     alias |-> Get(h.slug),
     alignment |-> Get(h.biography.alignment),
     image |-> Get(h.images_md),
     powerstats |-> Get(h.powerstats),
     biography |-> IF h.biography.kind = "missing" THEN NullBio
                   ELSE h.biography,
     appearance |-> Get(h.appearance),
     work |-> Get(h.work),
     connections |-> Get(h.connections)]

RECURSIVE SeedHeroes(_)
\* for h in heroes: db.session.add(Hero(...))
SeedHeroes(entries) ==
    IF entries = <<>> THEN <<>>
    ELSE <<SeedHero(Head(entries))>> \o SeedHeroes(Tail(entries))

SeedRequest ==
    [op |-> "seed_db", search |-> "", alignment |-> "", page |-> 0,
     per_page |-> 0, hero_id |-> 0]

\* phase 2 of run(): add every seed hero, then one commit
seed_db(entries) ==
    LET sess == [NewSession(heroes) EXCEPT !.new = SeedHeroes(entries)]
    IN  /\ request' = SeedRequest
        /\ before' = heroes
        /\ reply' = NoReply
        /\ upstreamCalls' = <<>>
        /\ response' = NoResponse
        /\ heroes' = IF FlushFails(sess) THEN heroes ELSE Flushed(sess).db

(* --------------------------- request inputs --------------------------- *)
HeroIds == 0..MaxId

DigitChar(i) ==
    CASE i = 0 -> "0" [] i = 1 -> "1" [] i = 2 -> "2" [] i = 3 -> "3"
      [] i = 4 -> "4" [] i = 5 -> "5" [] i = 6 -> "6" [] i = 7 -> "7"
      [] i = 8 -> "8" [] i = 9 -> "9"

\* the identifier strings "0", "1", ... of the hero ids
IdStrings == {StrId(<<DigitChar(i)>>) : i \in HeroIds}

Batman ==
    [EmptyPayload EXCEPT !.name = "Batman",
                         !.biography = Bio("Bruce Wayne", "bad"),
                         !.image = Image("http://batman.jpg"),
                         !.powerstats = "intelligence"]

Superman == [EmptyPayload EXCEPT !.name = "Superman"]

Nameless ==
    [EmptyPayload EXCEPT !.biography = Bio(MISSING, "good"),
                         !.image = Image("http://nameless.jpg")]

NullBiography == [Batman EXCEPT !.biography = NullBio]

WithId(payload, id) == [payload EXCEPT !.id = id]

\* the payloads the upstream answers <hero_id> with
IdPayloads ==
    {EmptyPayload} \cup
    {WithId(t, i) : t \in {Batman, Superman, Nameless, NullBiography},
                    i \in IdStrings \cup {NoId, StrId(<<"x">>)}}

\* the payloads of an upstream search result list
SearchPayloads ==
    {WithId(t, i) : t \in {Batman, Nameless}, i \in IdStrings}
    \cup {WithId(Superman, StrId(<<"x">>))}

Batches == UNION {[1..n -> SearchPayloads] : n \in 0..MaxBatch}

IdReplies ==
    {TimeoutReply}
    \cup {BadBodyReply(st) : st \in {200, 304, 404, 503}}
    \cup {IdReply(304, EmptyPayload)}
    \cup {IdReply(200, p) : p \in IdPayloads}

SearchReplies ==
    {TimeoutReply}
    \cup {BadBodyReply(st) : st \in {200, 304, 404, 503}}
    \cup {SearchReply(304, NoResults)}
    \cup {SearchReply(200, res) :
            res \in {NoResults, NullResults} \cup {ListResults(b) : b \in Batches}}

AssetOutcomes == {"ok", "bad", "timeout"}

\* replies as get_hero_image consumes them: the directory's, then the asset's
ImageReplies ==
    {[r EXCEPT !.asset = a] : r \in IdReplies \cup {NoReply},
                              a \in AssetOutcomes \cup {"none"}}

SearchArgs == {"", " ", " batman "}
\* the alignment, page and per_page arguments of a request
QueryArgs == {<<"", 1, 25>>, <<" Villain ", 1, 25>>, <<"ALL", 2, 1>>}

SeedSuperman ==
    [id |-> 0, name |-> "Superman", slug |-> "superman",
     biography |-> Bio("Clark Kent", "good"),
     images_md |-> "http://superman.md.jpg", powerstats |-> MISSING,
     appearance |-> MISSING, work |-> MISSING, connections |-> MISSING]

SeedBatman ==
    [SeedSuperman EXCEPT !.name = "Batman", !.slug = MISSING,
                         !.biography = NoBio, !.images_md = MISSING]

\* longest superheros_all.json of the model
MaxSeed == 2

SeedEntries == {[t EXCEPT !.id = i] : t \in {SeedSuperman, SeedBatman}, i \in HeroIds}

SeedFiles == UNION {[1..n -> SeedEntries] : n \in 1..MaxSeed}

(* --------------------------- specification ---------------------------- *)
NoRequest ==
    [op |-> "none", search |-> "", alignment |-> "", page |-> 0,
     per_page |-> 0, hero_id |-> 0]

\* no record: normalize_hero has not returned
NoRecord ==
    [id |-> 0, name |-> NULL, full_name |-> NULL, alias |-> NULL,
     alignment |-> NULL, image |-> NULL, powerstats |-> NULL,
     biography |-> NullBio, appearance |-> NULL, work |-> NULL,
     connections |-> NULL]

Pending == [state |-> "pending", record |-> NoRecord]
Raised == [state |-> "raised", record |-> NoRecord]
Returned(record) == [state |-> "returned", record |-> record]

Init ==
    /\ heroes = EmptyFn
    /\ request = NoRequest
    /\ reply = NoReply
    /\ response = NoResponse
    /\ upstreamCalls = <<>>
    /\ before = EmptyFn
    /\ rawHero = EmptyPayload
    /\ outcome = Pending
    /\ workers = EmptyFn
    /\ apiResults = <<>>
    /\ NoLeague

\* the server is between two requests
Idle == request = NoRequest

\* the response has been sent and the request context is torn down
Respond ==
    /\ ~Idle
    /\ request' = NoRequest
    /\ reply' = NoReply
    /\ response' = NoResponse
    /\ upstreamCalls' = <<>>
    /\ before' = EmptyFn
    /\ heroes' = heroes
    /\ UNCHANGED <<normVars, workers, apiResults, leagueVars>>

Next ==
    \/ /\ Idle
       /\ \E search \in SearchArgs, q \in QueryArgs,
             r \in SearchReplies \cup {NoReply} :
             search_or_browse_heroes(search, q[1], q[2], q[3], r)
       /\ UNCHANGED <<normVars, workers, apiResults, leagueVars>>
    \/ /\ Idle
       /\ \E hero_id \in HeroIds, r \in IdReplies \cup {NoReply} :
             get_hero(hero_id, r)
       /\ UNCHANGED <<normVars, workers, apiResults, leagueVars>>
    \/ /\ Idle
       /\ \E hero_id \in HeroIds, r \in ImageReplies :
             get_hero_image(hero_id, r)
       /\ UNCHANGED <<normVars, workers, apiResults, leagueVars>>
    \/ /\ Idle
       /\ \E entries \in SeedFiles : seed_db(entries)
       /\ UNCHANGED <<normVars, workers, apiResults, leagueVars>>
    \/ Respond

Spec == Init /\ [][Next]_vars

(* ------------------------ concurrent requests ------------------------- *)
\* the worker threads of the server
Workers == {"w1", "w2"}

\* a worker between two requests
IdleWorker ==
    [pc |-> "idle", op |-> "none", hero_id |-> 0, found |-> FALSE,
     record |-> NoRecord, status |-> 0, fetched |-> FALSE, late |-> FALSE]

\* some request that had normalized a payload for the id was aborted before
\* its commit
AbortedFor(id) ==
    \E v \in Workers : workers[v].pc = "aborted" /\ workers[v].record.id = id

\* get_hero, line 132: the existence check; a hit is answered at once
GetHeroLookup(w, hero_id) ==
    /\ workers[w].pc = "idle"
    /\ workers' = [workers EXCEPT ![w] =
          [IdleWorker EXCEPT
             !.op = "get_hero", !.hero_id = hero_id,
             !.late = AbortedFor(hero_id),
             !.found = Found(heroes, hero_id),
             !.record = IF Found(heroes, hero_id) THEN heroes[hero_id]
                        ELSE NoRecord,
             !.status = IF Found(heroes, hero_id) THEN 200 ELSE 0,
             !.pc = IF Found(heroes, hero_id) THEN "done" ELSE "fetch"]]
    /\ heroes' = heroes

\* get_hero, lines 134-140: the upstream fetch, normalize_hero, session.add
GetHeroFetch(w, r) ==
    /\ workers[w].pc = "fetch"
    /\ r.kind # "none"
    /\ heroes' = heroes
    /\ workers' = [workers EXCEPT ![w] =
          IF r.kind = "timeout" \/ (RespOk(r) /\ ~r.json)
          THEN [@ EXCEPT !.fetched = TRUE, !.status = 500, !.pc = "done"]
          ELSE IF ~RespOk(r)
          THEN [@ EXCEPT !.fetched = TRUE, !.status = r.status, !.pc = "done"]
          ELSE IF normalize_raises(r.hero)
          THEN [@ EXCEPT !.fetched = TRUE, !.status = 500, !.pc = "done"]
          ELSE [@ EXCEPT !.fetched = TRUE,
                         !.record = Hero(normalize_hero(r.hero)),
                         !.pc = "commit"]]

\* search_or_browse_heroes, lines 64-70, for a result list of at most one
\* payload: the upstream search and normalize_hero
SearchFetch(w, r) ==
    /\ workers[w].pc = "idle"
    /\ r.kind # "none"
    /\ Len(ApiResults(r)) <= 1
    /\ heroes' = heroes
    /\ workers' = [workers EXCEPT ![w] =
          LET begun == [IdleWorker EXCEPT !.op = "search", !.fetched = TRUE]
          IN  IF r.kind = "timeout" \/ (RespOk(r) /\ ~r.json)
              THEN [begun EXCEPT !.status = 500, !.pc = "done"]
              ELSE IF ~RespOk(r)
              THEN [begun EXCEPT !.status = r.status, !.pc = "done"]
              ELSE IF AnyNormalizeRaises(ApiResults(r))
              THEN [begun EXCEPT !.status = 500, !.pc = "done"]
              ELSE IF ApiResults(r) = <<>>
              THEN [begun EXCEPT !.status = 200, !.pc = "done"]
              ELSE [begun EXCEPT
                      !.record = Hero(normalize_hero(ApiResults(r)[1])),
                      !.pc = "lookup"]]

\* search_or_browse_heroes, lines 75-80: the existence check, then
\* session.add or the setattr loop
SearchLookup(w) ==
    /\ workers[w].pc = "lookup"
    /\ heroes' = heroes
    /\ workers' = [workers EXCEPT ![w] =
          [@ EXCEPT !.found = Found(heroes, workers[w].record.id),
                    !.pc = "commit"]]

\* the session a worker brings to its commit: the pending INSERT of a miss
\* or the UPDATE of a hit, against the table as committed by then
CommitSession(w) ==
    IF workers[w].found
    THEN SessionSetAll(NewSession(heroes), workers[w].record)
    ELSE SessionAdd(NewSession(heroes), workers[w].record)

\* db.session.commit() of lines 84 and 141; an IntegrityError ends in the
\* handler's except branch with status 500
Commit(w) ==
    /\ workers[w].pc = "commit"
    /\ IF FlushFails(CommitSession(w))
       THEN /\ heroes' = heroes
            /\ workers' = [workers EXCEPT ![w] =
                  [@ EXCEPT !.status = 500, !.pc = "done"]]
       ELSE /\ heroes' = Flushed(CommitSession(w)).db
            /\ workers' = [workers EXCEPT ![w] =
                  [@ EXCEPT !.status = 200, !.pc = "done"]]

\* the request dies between normalize_hero and the commit: its transaction
\* is never committed
Abort(w) ==
    /\ workers[w].pc \in {"lookup", "commit"}
    /\ workers' = [workers EXCEPT ![w] = [@ EXCEPT !.pc = "aborted"]]
    /\ heroes' = heroes

\* the worker takes no further part in the request
Release(w) ==
    /\ workers[w].pc \in {"done", "aborted"}
    /\ workers' = [workers EXCEPT ![w] = IdleWorker]
    /\ heroes' = heroes

\* the payloads the upstream answers concurrent requests with
ConcPayloads ==
    {WithId(t, i) : t \in {Batman, Superman, Nameless}, i \in IdStrings}

ConcIdReplies ==
    {IdReply(404, EmptyPayload)} \cup {IdReply(200, p) : p \in ConcPayloads}

ConcSearchReplies ==
    {SearchReply(404, NoResults), SearchReply(200, NoResults)}
    \cup {SearchReply(200, ListResults(<<p>>)) : p \in ConcPayloads}

InitConc ==
    /\ heroes = EmptyFn
    /\ request = NoRequest
    /\ reply = NoReply
    /\ response = NoResponse
    /\ upstreamCalls = <<>>
    /\ before = EmptyFn
    /\ rawHero = EmptyPayload
    /\ outcome = Pending
    /\ workers = [w \in Workers |-> IdleWorker]
    /\ apiResults = <<>>
    /\ NoLeague

NextConc ==
    \/ \E w \in Workers, hero_id \in HeroIds :
          GetHeroLookup(w, hero_id) /\ UNCHANGED <<seqVars, normVars, apiResults, leagueVars>>
    \/ \E w \in Workers, r \in ConcIdReplies :
          GetHeroFetch(w, r) /\ UNCHANGED <<seqVars, normVars, apiResults, leagueVars>>
    \/ \E w \in Workers, r \in ConcSearchReplies :
          SearchFetch(w, r) /\ UNCHANGED <<seqVars, normVars, apiResults, leagueVars>>
    \/ \E w \in Workers : SearchLookup(w) /\ UNCHANGED <<seqVars, normVars, apiResults, leagueVars>>
    \/ \E w \in Workers : Commit(w) /\ UNCHANGED <<seqVars, normVars, apiResults, leagueVars>>
    \/ \E w \in Workers : Abort(w) /\ UNCHANGED <<seqVars, normVars, apiResults, leagueVars>>
    \/ \E w \in Workers : Release(w) /\ UNCHANGED <<seqVars, normVars, apiResults, leagueVars>>

SpecConc == InitConc /\ [][NextConc]_vars

(* ------------------- the normalizer on its own ------------------------ *)
\* the characters of the raw identifier strings
IdAlphabet == {"1", "7", " ", "-", "_", "x"}

RawIdStrings == UNION {[1..n -> IdAlphabet] : n \in 0..MaxIdLen}

RawIds == {NoId, NullId} \cup {StrId(str) : str \in RawIdStrings}

RawAlignments == {MISSING, NULL, "", "good", "bad", "neutral", "evil", "-"}

RawBiographies ==
    {NoBio, NullBio}
    \cup {Bio(fn, al) : fn \in {MISSING, "Bruce Wayne"}, al \in RawAlignments}

RawImages == {NoImage, NullImage, Image(MISSING), Image("http://batman.jpg")}

RawBlobs == {MISSING, NULL, "blob"}

\* the payload shapes normalize_hero is tried on
RawPayloads ==
    {[id |-> i, name |-> n, biography |-> b, image |-> im, powerstats |-> bl,
      appearance |-> bl, work |-> MISSING, connections |-> NULL] :
        i \in RawIds, n \in {MISSING, "Batman"}, b \in RawBiographies,
        im \in RawImages, bl \in RawBlobs}

InitNorm ==
    /\ heroes = EmptyFn
    /\ request = NoRequest
    /\ reply = NoReply
    /\ response = NoResponse
    /\ upstreamCalls = <<>>
    /\ before = EmptyFn
    /\ rawHero \in RawPayloads
    /\ outcome = Pending
    /\ workers = EmptyFn
    /\ apiResults = <<>>
    /\ NoLeague

\* one call normalize_hero(rawHero)
Normalize ==
    /\ outcome = Pending
    /\ outcome' = IF normalize_raises(rawHero) THEN Raised
                  ELSE Returned(normalize_hero(rawHero))
    /\ UNCHANGED <<heroes, request, reply, response, upstreamCalls, before,
                   rawHero, workers, apiResults, leagueVars>>

\* GET /api/heroes?search=batman with rawHero as the one upstream result
SearchOne ==
    /\ Idle
    /\ search_or_browse_heroes(" batman ", "", 1, 25,
                               SearchReply(200, ListResults(<<rawHero>>)))
    /\ UNCHANGED <<normVars, workers, apiResults, leagueVars>>

NextNorm == Normalize \/ SearchOne

SpecNorm == InitNorm /\ [][NextNorm]_vars

(* ---------------- pagination over a fixed result list ----------------- *)
\* the longest result list the upstream search answers
MaxListed == 3

\* the hero ids of the result lists
ListedIds == 0..(MaxListed - 1)

\* the result lists: the heroes 0, 1, ... in that order, each one either a
\* villain (Batman) or of unknown alignment (Superman)
ResultLists ==
    UNION {{[k \in 1..n |-> WithId(t[k], StrId(<<DigitChar(k - 1)>>))] :
              t \in [1..n -> {Batman, Superman}]} : n \in 0..MaxListed}

\* the values of ?page=
PageInputs == (-1)..(MaxListed + 1)

\* the values of ?per_page=
PerPageInputs == ((-1)..MaxListed) \cup {99, 100, 101, 150}

\* the values of ?alignment=
PageAlignments == {"", " Villain "}

InitPage ==
    /\ heroes = EmptyFn
    /\ request = NoRequest
    /\ reply = NoReply
    /\ response = NoResponse
    /\ upstreamCalls = <<>>
    /\ before = EmptyFn
    /\ rawHero = EmptyPayload
    /\ outcome = Pending
    /\ workers = EmptyFn
    /\ apiResults \in ResultLists
    /\ NoLeague

\* GET /api/heroes?search=batman&alignment=&page=&per_page= while the
\* upstream answers the search with apiResults
SearchPage ==
    /\ Idle
    /\ \E al \in PageAlignments, pg \in PageInputs, pp \in PerPageInputs :
          search_or_browse_heroes(" batman ", al, pg, pp,
                                  SearchReply(200, ListResults(apiResults)))
    /\ UNCHANGED <<normVars, workers, apiResults, leagueVars>>

\* GET /api/heroes?alignment=&page=&per_page= over the local table
BrowsePage ==
    /\ Idle
    /\ \E al \in PageAlignments, pg \in PageInputs, pp \in PerPageInputs :
          search_or_browse_heroes("", al, pg, pp, NoReply)
    /\ UNCHANGED <<normVars, workers, apiResults, leagueVars>>

NextPage == SearchPage \/ BrowsePage \/ Respond

SpecPage == InitPage /\ [][NextPage]_vars

(* -------------------- entrants, matches and tokens -------------------- *)
\* the most entrant rows ever inserted
MaxEntrants == 2

\* SQL NULL in an integer column, JSON null or an absent key of an integer
\* field of a request body
NONE == -1

\* the users table (users 1 and 2) and the events table (event 1)
Users == {1, 2}
Events == {1}

\* the access tokens in circulation: one per user, identity = the user id
Tokens == Users

\* the heroes table of the tournament runs: Batman is hero 1
LeagueHeroes == [i \in {1} |-> Hero(normalize_hero(WithId(Batman, StrId(<<"1">>))))]

\* a number of a JSON request body: whole, or whole and a half
JsonInt(n) == [kind |-> "number", whole |-> n, half |-> FALSE]
JsonHalf(n) == [kind |-> "number", whole |-> n, half |-> TRUE]
Absent == [kind |-> "absent", whole |-> 0, half |-> FALSE]

\* Python's `not v` for such a value: None and 0 are falsy
Falsy(v) == v.kind = "absent" \/ (v.whole = 0 /\ ~v.half)

\* int(v) for a JSON number: the fraction is cut off
IntOfNumber(v) == v.whole

\* the SQL comparison <integer column> = v
SqlEq(column, v) == v.kind = "number" /\ ~v.half /\ v.whole = column

\* Python's `not v` for an integer field: None and 0 are falsy
FalsyId(v) == v = NONE \/ v = 0

LeagueCall(op, token, status) ==
    [op |-> op, token |-> token, status |-> status, error |-> "", id |-> NONE,
     user_id |-> Absent, event_id |-> Absent, hero_id |-> Absent,
     entrant1_id |-> NONE, entrant2_id |-> NONE, winner_id |-> NONE,
     key |-> "", value |-> NONE]

\* mutant of check_if_token_revoked: the blocklist is not consulted
TokenNeverRevoked(jti) == FALSE

\* the token_in_blocklist_loader: the token's jti is in the blocklist
check_if_token_revoked(jti) == jti \in jwt_blocklist

\* @jwt_required() turns a revoked token away with handle_revoked_token's
\* 401 "Invalid or expired token"; the handler does not run
Rejected(c) ==
    /\ check_if_token_revoked(c.token)
    /\ call' = [c EXCEPT !.status = 401, !.error = "Invalid or expired token"]
    /\ UNCHANGED <<entrants, matches, serial, jwt_blocklist>>

\* the foreign keys and NOT NULL columns of an entrants row hold
EntrantRowOk(row) ==
    /\ row.name # NULL
    /\ row.event_id \in Events
    /\ row.user_id = NONE \/ row.user_id \in Users
    /\ row.hero_id = NONE \/ row.hero_id \in DOMAIN heroes

\* Entrant.query.filter_by(user_id=user_id, event_id=event_id) over the
\* committed rows
EntrantsOf(table, user_id, event_id) ==
    {k \in DOMAIN table :
        SqlEq(table[k].user_id, user_id) /\ SqlEq(table[k].event_id, event_id)}

\* the Entrant(...) of register_user_for_event
RegisteredEntrant(id, hero, user_id, event_id, hero_id) ==
    [id |-> id, name |-> hero.name,
     alias |-> IF Truthy(hero.full_name) THEN hero.full_name ELSE hero.alias,
     event_id |-> IntOfNumber(event_id), user_id |-> IntOfNumber(user_id),
     hero_id |-> IntOfNumber(hero_id), dropped |-> FALSE]

\* a row added to a table under its id
Inserted(table, row) ==
    [k \in DOMAIN table \cup {row.id} |-> IF k = row.id THEN row ELSE table[k]]

\* POST /entrants/register {user_id, event_id, hero_id}
register_user_for_event(token, user_id, event_id, hero_id) ==
    LET c == [LeagueCall("register_user_for_event", token, 0)
                EXCEPT !.user_id = user_id, !.event_id = event_id,
                       !.hero_id = hero_id]
        known == \E k \in DOMAIN heroes : SqlEq(k, hero_id)
        row == RegisteredEntrant(serial.entrant, heroes[IntOfNumber(hero_id)],
                                 user_id, event_id, hero_id)
    IN  \/ Rejected(c)
        \/ /\ ~check_if_token_revoked(token)
           /\ UNCHANGED <<matches, jwt_blocklist>>
           /\ IF Falsy(user_id) \/ Falsy(event_id) \/ Falsy(hero_id)
              THEN /\ call' = [c EXCEPT !.status = 400]
                   /\ UNCHANGED <<entrants, serial>>
              ELSE IF EntrantsOf(entrants, user_id, event_id) # {}
              THEN /\ call' = [c EXCEPT !.status = 400]
                   /\ UNCHANGED <<entrants, serial>>
              ELSE IF ~known
              THEN /\ call' = [c EXCEPT !.status = 404]
                   /\ UNCHANGED <<entrants, serial>>
              ELSE /\ serial.entrant <= MaxEntrants
                   /\ serial' = [serial EXCEPT !.entrant = @ + 1]
                   /\ IF EntrantRowOk(row)
                      THEN /\ entrants' = Inserted(entrants, row)
                           /\ call' = [c EXCEPT !.status = 201,
                                                !.id = row.id]
                      ELSE /\ entrants' = entrants
                           /\ call' = [c EXCEPT !.status = 500]

\* Entrant.soft_delete
soft_delete(row) ==
    [row EXCEPT !.name = "Dropped", !.alias = NULL, !.dropped = TRUE]

\* mutant of has_matches: the winner column is not looked at
has_matches_no_winner(entrant_id) ==
    \E m \in DOMAIN matches :
        \/ matches[m].entrant1_id = entrant_id
        \/ matches[m].entrant2_id = entrant_id

\* Match.query.filter((entrant1_id == id) | (entrant2_id == id)
\*                    | (winner_id == id)).count() > 0
has_matches(entrant_id) ==
    \E m \in DOMAIN matches :
        \/ matches[m].entrant1_id = entrant_id
        \/ matches[m].entrant2_id = entrant_id
        \/ matches[m].winner_id = entrant_id

\* a table without the row of an id
Deleted(table, id) == [k \in DOMAIN table \ {id} |-> table[k]]

\* lines 78-96 and 194-212: soft delete when a match refers to the
\* entrant, hard delete otherwise
DropOrDelete(c, entrant_id) ==
    IF has_matches(entrant_id)
    THEN /\ entrants' = [entrants EXCEPT ![entrant_id] = soft_delete(@)]
         /\ call' = [c EXCEPT !.status = 200, !.id = entrant_id]
    ELSE /\ entrants' = Deleted(entrants, entrant_id)
         /\ call' = [c EXCEPT !.status = 204, !.id = entrant_id]

\* DELETE /entrants/unregister/<event_id>: the entrant of the token's user
unregister_user_from_event(token, event_id) ==
    LET c == [LeagueCall("unregister_user_from_event", token, 0)
                EXCEPT !.event_id = JsonInt(event_id)]
        found == {k \in DOMAIN entrants :
                    entrants[k].user_id = token
                    /\ entrants[k].event_id = event_id}
    IN  \/ Rejected(c)
        \/ /\ ~check_if_token_revoked(token)
           /\ UNCHANGED <<matches, serial, jwt_blocklist>>
           /\ IF found = {}
              THEN /\ call' = [c EXCEPT !.status = 500]
                   /\ entrants' = entrants
              ELSE \E first \in found : DropOrDelete(c, first)

\* DELETE /entrants/<entrant_id>
delete_entrant(token, entrant_id) ==
    LET c == [LeagueCall("delete_entrant", token, 0) EXCEPT !.id = entrant_id]
    IN  \/ Rejected(c)
        \/ /\ ~check_if_token_revoked(token)
           /\ UNCHANGED <<matches, serial, jwt_blocklist>>
           /\ IF entrant_id \notin DOMAIN entrants
              THEN /\ call' = [c EXCEPT !.status = 500]
                   /\ entrants' = entrants
              ELSE DropOrDelete(c, entrant_id)

\* the ids of the matches table: the runs hold one match
MatchIds == {1}

\* the foreign keys and the check constraint of a matches row hold
MatchRowOk(row) ==
    /\ row.event_id \in Events
    /\ row.entrant1_id = NONE \/ row.entrant1_id \in DOMAIN entrants
    /\ row.entrant2_id = NONE \/ row.entrant2_id \in DOMAIN entrants
    /\ row.winner_id = NONE \/ row.winner_id \in DOMAIN entrants
    /\ row.entrant1_id = NONE \/ row.entrant2_id = NONE
          \/ row.entrant1_id # row.entrant2_id

\* `winner_id and winner_id not in [entrant1_id, entrant2_id]`
WinnerRefused(winner_id, entrant1_id, entrant2_id) ==
    ~FalsyId(winner_id) /\ winner_id \notin {entrant1_id, entrant2_id}

\* POST /matches {event_id, entrant1_id, entrant2_id, winner_id}
create_match(token, event_id, entrant1_id, entrant2_id, winner_id) ==
    LET c == [LeagueCall("create_match", token, 0)
                EXCEPT !.event_id = JsonInt(event_id),
                       !.entrant1_id = entrant1_id,
                       !.entrant2_id = entrant2_id, !.winner_id = winner_id]
        row == [id |-> serial.match, event_id |-> event_id,
                entrant1_id |-> entrant1_id, entrant2_id |-> entrant2_id,
                winner_id |-> winner_id]
    IN  \/ Rejected(c)
        \/ /\ ~check_if_token_revoked(token)
           /\ UNCHANGED <<entrants, jwt_blocklist>>
           /\ IF FalsyId(event_id) \/ FalsyId(entrant1_id)
                 \/ FalsyId(entrant2_id)
              THEN /\ call' = [c EXCEPT !.status = 400]
                   /\ UNCHANGED <<matches, serial>>
              ELSE IF WinnerRefused(winner_id, entrant1_id, entrant2_id)
              THEN /\ call' = [c EXCEPT !.status = 400]
                   /\ UNCHANGED <<matches, serial>>
              ELSE /\ serial.match \in MatchIds
                   /\ serial' = [serial EXCEPT !.match = @ + 1]
                   /\ IF MatchRowOk(row)
                      THEN /\ matches' = Inserted(matches, row)
                           /\ call' = [c EXCEPT !.status = 201, !.id = row.id]
                      ELSE /\ matches' = matches
                           /\ call' = [c EXCEPT !.status = 500]

\* PUT /matches/<match_id> {key: value}
update_match(token, match_id, key, value) ==
    LET c == [LeagueCall("update_match", token, 0)
                EXCEPT !.id = match_id, !.key = key, !.value = value]
        row == [matches[match_id] EXCEPT ![key] = value]
    IN  \/ Rejected(c)
        \/ /\ ~check_if_token_revoked(token)
           /\ UNCHANGED <<entrants, serial, jwt_blocklist>>
           /\ IF match_id \notin DOMAIN matches
              THEN /\ call' = [c EXCEPT !.status = 500]
                   /\ matches' = matches
              ELSE IF MatchRowOk(row)
              THEN /\ matches' = [matches EXCEPT ![match_id] = row]
                   /\ call' = [c EXCEPT !.status = 200]
              ELSE /\ matches' = matches
                   /\ call' = [c EXCEPT !.status = 500]

\* DELETE /matches/<match_id>
delete_match(token, match_id) ==
    LET c == [LeagueCall("delete_match", token, 0) EXCEPT !.id = match_id]
    IN  \/ Rejected(c)
        \/ /\ ~check_if_token_revoked(token)
           /\ UNCHANGED <<entrants, serial, jwt_blocklist>>
           /\ IF match_id \notin DOMAIN matches
              THEN /\ call' = [c EXCEPT !.status = 500]
                   /\ matches' = matches
              ELSE /\ matches' = Deleted(matches, match_id)
                   /\ call' = [c EXCEPT !.status = 204]

\* DELETE /logout: the token's jti is added to the blocklist
logout(token) ==
    LET c == LeagueCall("logout", token, 0)
    IN  \/ Rejected(c)
        \/ /\ ~check_if_token_revoked(token)
           /\ jwt_blocklist' = jwt_blocklist \cup {token}
           /\ call' = [c EXCEPT !.status = 200]
           /\ UNCHANGED <<entrants, matches, serial>>

\* the numbers a registration body carries
RegisterUserIds == {Absent, JsonInt(0), JsonHalf(1)} \cup {JsonInt(u) : u \in Users}
RegisterHeroIds == {JsonInt(1), JsonInt(2)}

\* the entrant ids of request bodies and paths
EntrantIds == 1..MaxEntrants

\* the values of entrant1_id and entrant2_id in a request body
EntrantRefs == {NONE} \cup EntrantIds

\* the values of winner_id in a request body, and of a updated field
BodyIds == {NONE, 0} \cup EntrantIds

MatchKeys == {"winner_id", "entrant1_id"}

InitLeague ==
    /\ heroes = LeagueHeroes
    /\ request = NoRequest
    /\ reply = NoReply
    /\ response = NoResponse
    /\ upstreamCalls = <<>>
    /\ before = EmptyFn
    /\ rawHero = EmptyPayload
    /\ outcome = Pending
    /\ workers = EmptyFn
    /\ apiResults = <<>>
    /\ NoLeague

\* the variables of the hero catalogue
catalogVars == <<heroes, seqVars, normVars, workers, apiResults>>

\* the server is between two requests
LeagueIdle == call = NoCall

\* the response has been sent
LeagueRespond ==
    /\ ~LeagueIdle
    /\ call' = NoCall
    /\ UNCHANGED <<entrants, matches, serial, jwt_blocklist, regs, catalogVars>>

NextLeague ==
    \/ /\ LeagueIdle
       /\ \E t \in Tokens, u \in RegisterUserIds, h \in RegisterHeroIds :
             register_user_for_event(t, u, JsonInt(1), h)
       /\ UNCHANGED <<catalogVars, regs>>
    \/ /\ LeagueIdle
       /\ \E t \in Tokens, ev \in Events : unregister_user_from_event(t, ev)
       /\ UNCHANGED <<catalogVars, regs>>
    \/ /\ LeagueIdle
       /\ \E t \in Tokens, id \in EntrantIds : delete_entrant(t, id)
       /\ UNCHANGED <<catalogVars, regs>>
    \/ /\ LeagueIdle
       /\ \E t \in Tokens, ev \in Events, e1 \in EntrantRefs,
             e2 \in EntrantRefs, w \in BodyIds :
             create_match(t, ev, e1, e2, w)
       /\ UNCHANGED <<catalogVars, regs>>
    \/ /\ LeagueIdle
       /\ \E t \in Tokens, id \in MatchIds, key \in MatchKeys, v \in BodyIds :
             update_match(t, id, key, v)
       /\ UNCHANGED <<catalogVars, regs>>
    \/ /\ LeagueIdle
       /\ \E t \in Tokens, id \in MatchIds : delete_match(t, id)
       /\ UNCHANGED <<catalogVars, regs>>
    \/ /\ LeagueIdle
       /\ \E t \in Tokens : logout(t)
       /\ UNCHANGED <<catalogVars, regs>>
    \/ LeagueRespond

SpecLeague == InitLeague /\ [][NextLeague]_vars

(* ------------------- two registrations at a time ---------------------- *)
IdleReg ==
    [pc |-> "idle", user_id |-> Absent, event_id |-> Absent,
     hero_id |-> Absent, status |-> 0, id |-> NONE]

\* lines 24-41 of register_user_for_event in worker w: the body is read,
\* the duplicate check and the hero lookup run against the committed rows
RegisterCheck(w, token, user_id, event_id, hero_id) ==
    LET r == [IdleReg EXCEPT !.user_id = user_id, !.event_id = event_id,
                             !.hero_id = hero_id]
    IN  /\ regs[w].pc = "idle"
        /\ ~check_if_token_revoked(token)
        /\ regs' = [regs EXCEPT ![w] =
              IF Falsy(user_id) \/ Falsy(event_id) \/ Falsy(hero_id)
              THEN [r EXCEPT !.pc = "done", !.status = 400]
              ELSE IF EntrantsOf(entrants, user_id, event_id) # {}
              THEN [r EXCEPT !.pc = "done", !.status = 400]
              ELSE IF ~\E k \in DOMAIN heroes : SqlEq(k, hero_id)
              THEN [r EXCEPT !.pc = "done", !.status = 404]
              ELSE [r EXCEPT !.pc = "checked"]]
        /\ UNCHANGED <<entrants, matches, serial, jwt_blocklist, call>>

\* lines 43-56 in worker w: the entrant is added and committed
RegisterCommit(w) ==
    LET r == regs[w]
        row == RegisteredEntrant(serial.entrant,
                                 heroes[IntOfNumber(r.hero_id)],
                                 r.user_id, r.event_id, r.hero_id)
    IN  /\ r.pc = "checked"
        /\ serial.entrant <= MaxEntrants
        /\ serial' = [serial EXCEPT !.entrant = @ + 1]
        /\ IF EntrantRowOk(row)
           THEN /\ entrants' = Inserted(entrants, row)
                /\ regs' = [regs EXCEPT ![w] =
                      [r EXCEPT !.pc = "done", !.status = 201, !.id = row.id]]
           ELSE /\ entrants' = entrants
                /\ regs' = [regs EXCEPT ![w] =
                      [r EXCEPT !.pc = "done", !.status = 500]]
        /\ UNCHANGED <<matches, jwt_blocklist, call>>

\* the response of worker w has been sent
RegisterRelease(w) ==
    /\ regs[w].pc = "done"
    /\ regs' = [regs EXCEPT ![w] = IdleReg]
    /\ UNCHANGED <<entrants, matches, serial, jwt_blocklist, call>>

InitReg ==
    /\ heroes = LeagueHeroes
    /\ request = NoRequest
    /\ reply = NoReply
    /\ response = NoResponse
    /\ upstreamCalls = <<>>
    /\ before = EmptyFn
    /\ rawHero = EmptyPayload
    /\ outcome = Pending
    /\ workers = EmptyFn
    /\ apiResults = <<>>
    /\ entrants = EmptyFn
    /\ matches = EmptyFn
    /\ serial = [entrant |-> 1, match |-> 1]
    /\ jwt_blocklist = {}
    /\ call = NoCall
    /\ regs = [w \in Workers |-> IdleReg]

NextReg ==
    \/ \E w \in Workers, u \in Users, h \in RegisterHeroIds :
          RegisterCheck(w, u, JsonInt(u), JsonInt(1), h)
          /\ UNCHANGED catalogVars
    \/ \E w \in Workers : RegisterCommit(w) /\ UNCHANGED catalogVars
    \/ \E w \in Workers : RegisterRelease(w) /\ UNCHANGED catalogVars

SpecReg == InitReg /\ [][NextReg]_vars

(* ------------------------------ claims -------------------------------- *)
IsSearchOrBrowse == request.op = "search_or_browse_heroes"

\* the row and the record returned for it agree on every column
SameColumns(record, row) == \A k \in DOMAIN row : record[k] = row[k]

\* C1: get-by-id for an id that already has a row answers 200 with that
\* stored row, issues no upstream request and leaves the table as it was
C1_LocalFirst ==
    [][(Idle /\ request'.op = "get_hero" /\ request'.hero_id \in DOMAIN heroes)
        => /\ response'.status = 200
           /\ Len(response'.results) = 1
           /\ SameColumns(response'.results[1], heroes[request'.hero_id])
           /\ upstreamCalls' = <<>>
           /\ heroes' = heroes]_vars

\* a seeded row served by get-by-id without any upstream call
C1_Witness ==
    /\ request.op = "get_hero"
    /\ request.hero_id \in DOMAIN heroes
    /\ heroes[request.hero_id].alias # NULL
    /\ upstreamCalls = <<>>
    /\ response.status = 200

\* C2: a non-OK upstream status s on a search or on a get-by-id miss is
\* answered with exactly s, without hero data, and the table is unchanged
C2_UpstreamStatusVerbatim ==
    [][(/\ Idle
        /\ request'.op \in {"search_or_browse_heroes", "get_hero"}
        /\ reply'.kind = "http"
        /\ reply'.status >= 400)
        => /\ response'.status = reply'.status
           /\ response'.kind = "error"
           /\ response'.results = <<>>
           /\ heroes' = heroes]_vars

\* a 404 on a get-by-id miss while other rows are stored: 404, no row made
C2_Witness ==
    /\ request.op = "get_hero"
    /\ reply.kind = "http"
    /\ reply.status = 404
    /\ response.status = 404
    /\ heroes # EmptyFn
    /\ request.hero_id \notin DOMAIN heroes

\* C3: a get-by-id miss whose upstream fetch succeeds with payload p
\* inserts normalize(p) and returns that record with status 200
C3_MissInsertsNormalized ==
    [][(/\ Idle
        /\ request'.op = "get_hero"
        /\ request'.hero_id \notin DOMAIN heroes
        /\ reply'.kind = "http"
        /\ reply'.status = 200
        /\ reply'.json)
        => /\ response'.status = 200
           /\ ~normalize_raises(reply'.hero)
           /\ LET record == normalize_hero(reply'.hero)
              IN  /\ record.id \in DOMAIN heroes'
                  /\ heroes'[record.id] = Hero(record)
                  /\ Len(response'.results) = 1
                  /\ SameColumns(response'.results[1], Hero(record))]_vars

\* the alignment filter a request asks for, as the handler reads it
EffAlignment(req) == LowerStr(StripStr(req.alignment))

FilterOff(req) == EffAlignment(req) = "" \/ EffAlignment(req) = "all"

SearchWithList ==
    /\ IsSearchOrBrowse
    /\ reply.kind = "http"
    /\ reply.status = 200
    /\ reply.json
    /\ reply.results.kind = "list"
    /\ ~AnyNormalizeRaises(reply.results.items)

\* the normalized record of the i-th payload of the result list
NormalizedAt(i) == normalize_hero(reply.results.items[i])

\* some record of the batch cannot be persisted
SomeRejected ==
    \E i \in 1..Len(reply.results.items) : RowRejected(Hero(NormalizedAt(i)))

\* the records of the batch have pairwise different ids
DistinctIds ==
    \A i, j \in 1..Len(reply.results.items) :
        i # j => NormalizedAt(i).id # NormalizedAt(j).id

\* C6: when one record of a search batch cannot be persisted, every other
\* record of the batch is in the table after the request, whether it came
\* before or after the failing one
C6_BatchIsolation ==
    (SearchWithList /\ DistinctIds /\ SomeRejected)
        => \A i \in 1..Len(reply.results.items) :
              ~RowRejected(Hero(NormalizedAt(i)))
              => /\ NormalizedAt(i).id \in DOMAIN heroes
                 /\ heroes[NormalizedAt(i).id] = Hero(NormalizedAt(i))

\* C7: a record that cannot be persisted never fails the search: the answer
\* is 200 and, with the filter off, counts every normalized record
C7_PersistFailureSwallowed ==
    (SearchWithList /\ SomeRejected)
        => /\ response.status = 200
           /\ FilterOff(request) => response.total = Len(reply.results.items)

\* the upstream call of a search or get-by-id timed out or was not 2xx
UpstreamFailed ==
    /\ request.op \in {"search_or_browse_heroes", "get_hero"}
    /\ upstreamCalls # <<>>
    /\ \/ reply.kind = "timeout"
       \/ reply.kind = "http" /\ (reply.status < 200 \/ reply.status >= 300)

\* C8: a timeout or non-2xx upstream reply is reported as an error that
\* carries the upstream status, never as a 200
C8_UpstreamFailureSurfaced ==
    UpstreamFailed
        => /\ response.kind = "error"
           /\ response.status # 200
           /\ reply.kind = "http" => response.status = reply.status

\* the identifier of the payload is absent, null or not an integer literal
IdAbsentOrNonNumeric(payload) ==
    \/ payload.id.kind \in {"missing", "null"}
    \/ int_raises(payload.id.chars)

\* C9: normalize fails exactly when the identifier is absent or non-numeric
C9_FailsExactlyOnBadId ==
    outcome.state # "pending"
        => (outcome.state = "raised" <=> IdAbsentOrNonNumeric(rawHero))

\* C10: every stored hero row has one of the four canonical alignments
C10_CanonicalAlignment ==
    \A k \in DOMAIN heroes : heroes[k].alignment \in HERO_ALIGNMENTS

\* the canonical alignment the specification assigns to an upstream value
ExpectedAlignment(raw) ==
    CASE raw = "good" -> "hero"
      [] raw = "bad" -> "villain"
      [] raw = "neutral" -> "antihero"
      [] OTHER -> "unknown"

\* C11: normalize maps good to hero, bad to villain, neutral to antihero and
\* every other alignment (missing key, null, empty, unlisted string) to
\* unknown, never failing because of the alignment; a search that answers
\* 200 returns and stores the record with the mapped alignment
C11_AlignmentMapping ==
    LET raw == rawHero.biography.alignment
    IN  /\ outcome.state = "returned"
            => outcome.record.alignment = ExpectedAlignment(raw)
        /\ outcome.state = "raised"
            => \/ rawHero.biography.kind = "null"
               \/ rawHero.id.kind = "str" /\ int_raises(rawHero.id.chars)
        /\ (IsSearchOrBrowse /\ response.status = 200)
            => /\ Len(response.results) = 1
               /\ response.results[1].alignment = ExpectedAlignment(raw)
               /\ response.results[1].id \in DOMAIN heroes
               /\ heroes[response.results[1].id].alignment
                     = ExpectedAlignment(raw)

\* the search of test_normalize_hero_alignment_mapping: one payload with
\* alignment "bad" is returned and stored as "villain"
C11_Witness ==
    /\ IsSearchOrBrowse
    /\ rawHero.biography.alignment = "bad"
    /\ response.status = 200
    /\ response.results[1].alignment = "villain"
    /\ \E k \in DOMAIN heroes : heroes[k].alignment = "villain"
    /\ outcome.state = "returned"

\* C12: running a search again against the same upstream result leaves the
\* table exactly as the first run left it
C12_SearchIdempotent ==
    (/\ IsSearchOrBrowse
     /\ reply.kind = "http"
     /\ RespOk(reply)
     /\ reply.json)
    => PersistSearch(heroes, ApiResults(reply)) = heroes

\* a search answered 200 over a table that already held exactly the rows of
\* its result list: the second run of that search
C12_Witness ==
    /\ SearchWithList
    /\ response.status = 200
    /\ reply.results.items # <<>>
    /\ before # EmptyFn
    /\ heroes = before
    /\ \A i \in 1..Len(reply.results.items) :
          /\ NormalizedAt(i).id \in DOMAIN before
          /\ before[NormalizedAt(i).id] = Hero(NormalizedAt(i))

\* C13: after a search whose result list has a payload for an id that had
\* a row, that row equals the normalized payload in every column
C13_SearchReplacesRow ==
    (SearchWithList /\ DistinctIds)
        => \A i \in 1..Len(reply.results.items) :
              NormalizedAt(i).id \in DOMAIN before
              => /\ NormalizedAt(i).id \in DOMAIN heroes
                 /\ heroes[NormalizedAt(i).id] = Hero(NormalizedAt(i))

\* C14: a request that reached its commit with a storable record for the id
\* it was asked for answers 200 and the id has a row, whatever other
\* requests for the same id did between its existence check and its commit
C14_ConcurrentUpsertsSerialised ==
    \A w \in Workers :
        (/\ workers[w].pc = "done"
         /\ workers[w].fetched
         /\ ~RowRejected(workers[w].record)
         /\ workers[w].op = "get_hero"
               => workers[w].record.id = workers[w].hero_id)
        => /\ workers[w].status = 200
           /\ workers[w].record.id \in DOMAIN heroes

\* C15: after a request for an id was aborted between normalize and commit,
\* every stored row is a complete record, and a get-by-id for that id that
\* starts afterwards re-fetches from upstream and succeeds, unless the
\* upstream refuses the fetch
C15_AbortThenRefetch ==
    /\ \A k \in DOMAIN heroes : heroes[k].id = k /\ ~RowRejected(heroes[k])
    /\ \A w \in Workers :
          (/\ workers[w].op = "get_hero"
           /\ workers[w].late
           /\ workers[w].pc = "done"
           /\ workers[w].status # 404)
          => (workers[w].fetched /\ workers[w].status = 200)

\* C16: when the image proxy obtains an upstream payload for an id that
\* already has a row, the row afterwards is the normalized payload in every
\* column
C16_ImageProxyFullUpsert ==
    (/\ request.op = "get_hero_image"
     /\ request.hero_id \in DOMAIN before
     /\ reply.kind = "http"
     /\ reply.status = 200
     /\ reply.json
     /\ ~normalize_raises(reply.hero)
     /\ normalize_hero(reply.hero).id = request.hero_id
     /\ ~RowRejected(Hero(normalize_hero(reply.hero))))
    => /\ request.hero_id \in DOMAIN heroes
       /\ heroes[request.hero_id] = Hero(normalize_hero(reply.hero))

\* C17: no step of the server removes a hero row: the set of stored ids
\* never shrinks, whether the request succeeds or fails
C17_NeverShrinks ==
    [][DOMAIN heroes \subseteq DOMAIN heroes']_vars

\* a search over a non-empty table whose upstream answered 200 and whose
\* persistence failed: the request answers 500 and every stored id is kept
C17_Witness ==
    /\ IsSearchOrBrowse
    /\ reply.kind = "http"
    /\ reply.status = 200
    /\ reply.results.kind = "list"
    /\ response.status = 500
    /\ before # EmptyFn
    /\ DOMAIN before \subseteq DOMAIN heroes

\* C18: a payload of a search result list that cannot be normalized does
\* not fail the request, and every other payload of the list that can be
\* stored is in the table afterwards
C18_MalformedIsolated ==
    (/\ IsSearchOrBrowse
     /\ reply.kind = "http"
     /\ reply.status = 200
     /\ reply.json
     /\ reply.results.kind = "list"
     /\ AnyNormalizeRaises(reply.results.items))
    => /\ response.status = 200
       /\ \A i \in 1..Len(reply.results.items) :
             (/\ ~normalize_raises(reply.results.items[i])
              /\ ~RowRejected(Hero(NormalizedAt(i))))
             => NormalizedAt(i).id \in DOMAIN heroes

\* the length of the unfiltered sequence of the request: the normalized
\* result list of a search, the stored rows of a browse
UnfilteredTotal ==
    IF StripStr(request.search) # "" THEN Len(ApiResults(reply))
    ELSE Cardinality(DOMAIN before)

\* the number of records of the unfiltered sequence with alignment f
UnfilteredWith(f) ==
    IF StripStr(request.search) # ""
    THEN Cardinality({i \in 1..Len(ApiResults(reply)) :
                        normalize_hero(ApiResults(reply)[i]).alignment = f})
    ELSE Cardinality({k \in DOMAIN before : before[k].alignment = f})

\* C19: with an alignment filter other than empty or all, every returned
\* record has the lower-cased filter as its alignment and total counts the
\* records of the unfiltered sequence with that alignment; with the filter
\* empty or all, total counts every record; for searches and browses alike
C19_AlignmentFilter ==
    (IsSearchOrBrowse /\ response.status = 200)
        => LET f == EffAlignment(request)
           IN  IF FilterOff(request)
               THEN response.total = UnfilteredTotal
               ELSE /\ \A i \in 1..Len(response.results) :
                         response.results[i].alignment = f
                    /\ response.total = UnfilteredWith(f)

\* a search with the filter " Villain " whose result list holds a villain
\* and a record of another alignment: only the villain is returned
C19_Witness ==
    /\ IsSearchOrBrowse
    /\ request.search = " batman "
    /\ request.alignment = " Villain "
    /\ response.status = 200
    /\ Len(ApiResults(reply)) = 2
    /\ response.total = 1
    /\ Len(response.results) = 1
    /\ response.results[1].alignment = "villain"

\* C20: every record a search-or-browse response returns carries the
\* locator derived from its id as its only image reference: the stored
\* upstream image URL is not in the response
C20_NoRawImageUrl ==
    IsSearchOrBrowse
        => \A i \in 1..Len(response.results) :
              /\ response.results[i].proxy_image
                    = proxy_image(response.results[i].id)
              /\ response.results[i].image = NULL

\* the lists the request may be paging over, before the alignment filter:
\* the normalized search results, or the stored rows in an ascending name
\* order
PagedLists ==
    IF StripStr(request.search) # ""
    THEN {NormalizeAll(ApiResults(reply))}
    ELSE {ToDicts(rows) : rows \in BrowseOrders(before, EffAlignment(request))}

\* the filtered sequence of a list
Filtered(list) == AddProxies(ApplyAlignment(list, EffAlignment(request)))

\* elements [(page-1)*per_page, page*per_page) of seq, counted from 0
Window(seq, page, per_page) ==
    LET first == (page - 1) * per_page
        n == Max(0, Min(Len(seq), page * per_page) - first)
    IN  [k \in 1..n |-> seq[first + k]]

\* C21: whatever integers page and per_page are, the reported page is the
\* requested one raised to at least 1, the reported per_page is the
\* requested one brought into 1..100, and the returned results are the
\* slice of the filtered sequence these two values select
C21_ClampedPaging ==
    (IsSearchOrBrowse /\ response.status = 200)
        => /\ response.page >= 1
           /\ response.page = IF request.page < 1 THEN 1 ELSE request.page
           /\ response.per_page \in 1..100
           /\ response.per_page = IF request.per_page < 1 THEN 1
                                  ELSE IF request.per_page > 100 THEN 100
                                  ELSE request.per_page
           /\ \E list \in PagedLists :
                 response.results
                    = Window(Filtered(list), response.page, response.per_page)

\* a request with page below 1 and per_page above 100 is answered with
\* page 1, per_page 100 and the whole three-record list
C21_Witness ==
    /\ IsSearchOrBrowse
    /\ response.status = 200
    /\ request.page < 1
    /\ request.per_page > 100
    /\ response.page = 1
    /\ response.per_page = 100
    /\ Len(response.results) = MaxListed

\* the least number of pages of per_page records that hold total records
CeilDiv(total, per_page) ==
    CHOOSE n \in 0..total :
        /\ n * per_page >= total
        /\ n > 0 => (n - 1) * per_page < total

\* page p of a list under the request's filter and the reported per_page
PageOf(list, p) ==
    ListResponse(list, EffAlignment(request), p, response.per_page).results

RECURSIVE ConcatPages(_, _)
\* pages 1..n of a list, one after the other
ConcatPages(list, n) ==
    IF n = 0 THEN <<>> ELSE ConcatPages(list, n - 1) \o PageOf(list, n)

\* C22: a 200 response holds elements [(page-1)*per_page, page*per_page)
\* of the filtered sequence, total is that sequence's length and
\* total_pages is ceil(total / per_page); pages 1..total_pages put one
\* after the other are the filtered sequence, element for element; with
\* total = 2 and per_page = 1 that is two one-record pages with different
\* records; every page after total_pages is empty
C22_PagesPartition ==
    (IsSearchOrBrowse /\ response.status = 200)
        => \E list \in PagedLists :
              LET seq == Filtered(list)
                  pages == response.total_pages
              IN  /\ response.results
                        = Window(seq, response.page, response.per_page)
                  /\ response.total = Len(seq)
                  /\ pages = CeilDiv(Len(seq), response.per_page)
                  /\ ConcatPages(list, pages) = seq
                  /\ \A p \in 1..pages : PageOf(list, p) # <<>>
                  /\ (Len(seq) = 2 /\ response.per_page = 1)
                        => /\ pages = 2
                           /\ Len(PageOf(list, 1)) = 1
                           /\ Len(PageOf(list, 2)) = 1
                           /\ PageOf(list, 1)[1] # PageOf(list, 2)[1]
                  /\ \A p \in (pages + 1)..(pages + 2) : PageOf(list, p) = <<>>
                  /\ response.page > pages => response.results = <<>>

\* page 2 of a two-record sequence at one record per page: the second
\* record, out of two pages
C22_Witness ==
    /\ IsSearchOrBrowse
    /\ response.status = 200
    /\ response.total = 2
    /\ response.per_page = 1
    /\ response.page = 2
    /\ response.total_pages = 2
    /\ Len(response.results) = 1
    /\ response.results[1].id = 1

\* the image proxy was asked for an id that has no stored image URL
NoStoredImage ==
    /\ request.op = "get_hero_image"
    /\ ~(request.hero_id \in DOMAIN before
         /\ Truthy(before[request.hero_id].image))

\* the upstream lookup by id answered with a payload
LookupAnswered == reply.kind = "http" /\ RespOk(reply) /\ reply.json

NoImageAvailable == ErrorResponse(404, "No image available")

\* the payload of the lookup has no image object or no URL in it
PayloadLacksImage ==
    \/ reply.hero.image.kind # "obj"
    \/ reply.hero.image.url \in {MISSING, NULL, ""}

\* C23 as stated: with no stored image URL, the proxy answers 404
\* NoImageAvailable both when the upstream lookup fails and when it
\* returns a payload without an image URL
C23_NoImageIs404 ==
    (NoStoredImage
     /\ (~LookupAnswered \/ PayloadLacksImage))
        => response = NoImageAvailable

\* C23 as amended: with no stored image URL, the proxy answers 404
\* NoImageAvailable (and stores nothing) when the upstream lookup returns
\* a payload without an image URL; a lookup the upstream refuses with an
\* error status is answered with that status, not with 404
C23_NoImageInPayloadIs404 ==
    NoStoredImage
        => /\ (LookupAnswered /\ PayloadLacksImage)
                => /\ response = NoImageAvailable
                   /\ heroes = before
                   /\ upstreamCalls = <<"id">>
           /\ (reply.kind = "http" /\ reply.status >= 400)
                => /\ response = ErrorResponse(reply.status, "External API error")
                   /\ heroes = before

\* a stored hero without an image, and the upstream payload has none
\* either: 404 NoImageAvailable
C23_Witness ==
    /\ NoStoredImage
    /\ request.hero_id \in DOMAIN before
    /\ LookupAnswered
    /\ reply.status = 200
    /\ reply.hero.name = "Superman"
    /\ PayloadLacksImage
    /\ response = NoImageAvailable

\* C28: after a get-by-id that missed locally and answered 200 for the
\* requested id i, the table has a row under i, the returned record's id
\* is i, and a get-by-id for i issued next finds the row locally
C28_MissKeyedByRequestedId ==
    (/\ request.op = "get_hero"
     /\ request.hero_id \notin DOMAIN before
     /\ response.status = 200)
        => /\ request.hero_id \in DOMAIN heroes
           /\ heroes[request.hero_id].id = request.hero_id
           /\ Len(response.results) = 1
           /\ response.results[1].id = request.hero_id
           /\ Found(heroes, request.hero_id)

\* C24: whatever POST /entrants/register calls were made, no two entrant
\* rows have the same user_id and event_id
C24_OneEntrantPerUserEvent ==
    \A a, b \in DOMAIN entrants :
        (entrants[a].user_id = entrants[b].user_id
         /\ entrants[a].event_id = entrants[b].event_id) => a = b

\* a match refers to the entrant as entrant1, entrant2 or winner
Referenced(id) ==
    \E m \in DOMAIN matches :
        id \in {matches[m].entrant1_id, matches[m].entrant2_id,
                matches[m].winner_id}

\* the step deletes entrant id the way C25 says: kept and marked dropped
\* with 200 when a match refers to it, removed with 204 otherwise
DeletedAsClaimed(id) ==
    /\ IF Referenced(id)
       THEN /\ call'.status = 200
            /\ id \in DOMAIN entrants'
            /\ entrants'[id].dropped
            /\ entrants'[id].user_id = entrants[id].user_id
       ELSE /\ call'.status = 204
            /\ id \notin DOMAIN entrants'
    /\ \A k \in DOMAIN entrants \ {id} :
          k \in DOMAIN entrants' /\ entrants'[k] = entrants[k]
    /\ matches' = matches

\* C25: DELETE /entrants/{id} of a stored entrant, and an unregister of a
\* user who has an entrant in the event, keep the row with dropped = true
\* and answer 200 when a match refers to the entrant as entrant1, entrant2
\* or winner; otherwise they remove the row and answer 204
C25_SoftOrHardDelete ==
    [][(LeagueIdle /\ call'.status # 401)
        => /\ (call'.op = "delete_entrant" /\ call'.id \in DOMAIN entrants)
                => DeletedAsClaimed(call'.id)
           /\ (call'.op = "unregister_user_from_event"
               /\ \E k \in DOMAIN entrants :
                     entrants[k].user_id = call'.token
                     /\ entrants[k].event_id = call'.event_id.whole)
                => /\ call'.id \in DOMAIN entrants
                   /\ entrants[call'.id].user_id = call'.token
                   /\ DeletedAsClaimed(call'.id)]_vars

\* an entrant that a match names only as its winner was deleted: the row
\* is kept, marked dropped, and the answer is 200
C25_Witness ==
    /\ call.op = "delete_entrant"
    /\ call.status = 200
    /\ call.id \in DOMAIN entrants
    /\ entrants[call.id].dropped
    /\ \E m \in DOMAIN matches :
          /\ matches[m].winner_id = call.id
          /\ matches[m].entrant1_id # call.id
          /\ matches[m].entrant2_id # call.id

\* C26: POST /matches between two stored entrants whose winner_id is given
\* and is neither entrant1_id nor entrant2_id is answered 400 and stores no
\* match
C26_InvalidWinnerRejected ==
    [][(/\ LeagueIdle
        /\ call'.op = "create_match"
        /\ call'.status # 401
        /\ call'.entrant1_id \in DOMAIN entrants
        /\ call'.entrant2_id \in DOMAIN entrants
        /\ call'.entrant1_id # call'.entrant2_id
        /\ call'.winner_id # NONE
        /\ call'.winner_id \notin {call'.entrant1_id, call'.entrant2_id})
        => /\ call'.status = 400
           /\ matches' = matches]_vars

\* C27: a token whose jti is in the blocklist stays there, and every
\* request that carries it is answered 401 "Invalid or expired token"
\* without touching the tables
C27_RevokedStaysRejected ==
    [][\A t \in Tokens :
          t \in jwt_blocklist
            => /\ t \in jwt_blocklist'
               /\ (LeagueIdle /\ call'.token = t)
                    => /\ call'.status = 401
                       /\ call'.error = "Invalid or expired token"
                       /\ entrants' = entrants
                       /\ matches' = matches]_vars

\* a registration that would have succeeded is turned away because its
\* token was revoked, while the other token is still good
C27_Witness ==
    /\ call.op = "register_user_for_event"
    /\ call.status = 401
    /\ call.token \in jwt_blocklist
    /\ call.user_id = JsonInt(call.token)
    /\ call.hero_id = JsonInt(1)
    /\ entrants = EmptyFn
    /\ jwt_blocklist # Tokens

\* C29: every stored match with a winner has it among its two entrants
C29_WinnerIsAnEntrant ==
    \A m \in DOMAIN matches :
        matches[m].winner_id # NONE
            => matches[m].winner_id
                  \in {matches[m].entrant1_id, matches[m].entrant2_id}

\* C30: two registrations of the same user for the same event that run
\* at the same time do not both succeed: no two entrant rows have the
\* same user_id and event_id
C30_ConcurrentRegisterOnce ==
    /\ \A a, b \in DOMAIN entrants :
          (a # b /\ entrants[a].event_id = entrants[b].event_id)
              => entrants[a].user_id # entrants[b].user_id
    /\ \A v, w \in Workers :
          (/\ v # w
           /\ regs[v].status = 201
           /\ regs[w].status = 201
           /\ regs[v].event_id = regs[w].event_id)
              => regs[v].user_id # regs[w].user_id

====
